---- MODULE Spec2Model ----
(***************************************************************************)
(* Model of sorting.py: the three comparators, the merge primitive         *)
(* _merged, merge_sorted, the copying quicksort quick_sorted and the       *)
(* in-place quicksort quick_sort.                                          *)
(*                                                                         *)
(* A behaviour is one call of one entry point on one input.  _merged and   *)
(* merge_sorted are evaluated as the functions they are; the two           *)
(* quicksorts run statement by statement on an explicit call stack, so     *)
(* that the partition state, the recursion and raised exceptions are       *)
(* states of the model.  Python lists are sequences; Python's 0-based      *)
(* index i is position i + 1 here.                                         *)
(***************************************************************************)
EXTENDS Integers, Sequences, FiniteSets, TLC

\* Longest list handed to a sort entry point.
MaxLen == 4
\* Longest list handed to _merged on either side.
MaxMergeLen == 3
\* Deepest call stack the model follows; a call on a list of n elements
\* nests at most n + 1 calls, so the cap is never the reason a call stops.
MaxDepth == MaxLen + 2

\* Elements: integers, two of them sharing a last digit.
Values == {1, 2, 3, 11}

Comparators == {"cmp_standard", "cmp_reverse", "cmp_last_digit"}

SeqsUpTo(n) == UNION {[1..k -> Values] : k \in 0..n}

VARIABLES op, cmp, xs0, ys0, xs, ys, ret, exc, pc, stack

vars == <<op, cmp, xs0, ys0, xs, ys, ret, exc, pc, stack>>

----------------------------------------------------------------------------
(* Comparators, lines 17-58 *)

cmp_standard(a, b) == IF a < b THEN -1 ELSE IF b < a THEN 1 ELSE 0

cmp_reverse(a, b) == IF a < b THEN 1 ELSE IF b < a THEN -1 ELSE 0

cmp_last_digit(a, b) == cmp_standard(a % 10, b % 10)

\* cmp(a, b) for the comparator object named c
Compare(c, a, b) ==
    IF c = "cmp_standard" THEN cmp_standard(a, b)
    ELSE IF c = "cmp_reverse" THEN cmp_reverse(a, b)
    ELSE cmp_last_digit(a, b)

----------------------------------------------------------------------------
(* _merged, lines 61-113 *)

\* merged_body with the EQUAL branch emitting the left element only
merged_body_drop(m, axs, ays, c) ==
    LET sorting == Compare(c, axs[m.i + 1], ays[m.j + 1])
    IN  IF sorting = -1
        THEN [i |-> m.i + 1, j |-> m.j,
              list_compiled |-> Append(m.list_compiled, axs[m.i + 1])]
        ELSE IF sorting = 0
        THEN [i |-> m.i + 1, j |-> m.j + 1,
              list_compiled |-> Append(m.list_compiled, axs[m.i + 1])]
        ELSE [i |-> m.i, j |-> m.j + 1,
              list_compiled |-> Append(m.list_compiled, ays[m.j + 1])]

\* One iteration of the first while loop (lines 95-106) on the loop state
\* m = [i, j, list_compiled], i and j being Python's 0-based cursors.
merged_body(m, axs, ays, c) ==
    LET sorting == Compare(c, axs[m.i + 1], ays[m.j + 1])
    IN  IF sorting = -1
        THEN [i |-> m.i + 1, j |-> m.j,
              list_compiled |-> Append(m.list_compiled, axs[m.i + 1])]
        ELSE IF sorting = 0
        THEN [i |-> m.i + 1, j |-> m.j + 1,
              list_compiled |-> Append(Append(m.list_compiled, axs[m.i + 1]),
                                       ays[m.j + 1])]
        ELSE [i |-> m.i, j |-> m.j + 1,
              list_compiled |-> Append(m.list_compiled, ays[m.j + 1])]

RECURSIVE merged_loop(_, _, _, _)

\* merged_loop without the last while loop: the rest of ys is left out
merged_loop_no_rest(m, axs, ays, c) ==
    IF m.i < Len(axs) /\ m.j < Len(ays)
    THEN merged_loop(merged_body(m, axs, ays, c), axs, ays, c)
    ELSE m.list_compiled
         \o SubSeq(axs, m.i + 1, Len(axs))

\* The three while loops, lines 94-112.
merged_loop(m, axs, ays, c) ==
    IF m.i < Len(axs) /\ m.j < Len(ays)
    THEN merged_loop(merged_body(m, axs, ays, c), axs, ays, c)
    ELSE m.list_compiled
         \o SubSeq(axs, m.i + 1, Len(axs))
         \o SubSeq(ays, m.j + 1, Len(ays))

\* The call: the returned list, and the contents of the two argument lists
\* when it returns (the function has no statement that writes to them).
_merged(axs, ays, c) ==
    [ret |-> merged_loop([i |-> 0, j |-> 0, list_compiled |-> <<>>],
                         axs, ays, c),
     xs |-> axs,
     ys |-> ays]

----------------------------------------------------------------------------
(* merge_sorted, lines 116-142 *)

RECURSIVE merge_sorted(_, _)

\* merge_sorted sorting its argument list in place as well
merge_sorted_inplace(axs, c) ==
    LET dc_xs == axs
        middle == Len(dc_xs) \div 2
    IN  IF Len(axs) = 1 \/ Len(axs) = 0
        THEN [ret |-> axs, xs |-> axs]
        ELSE LET left == SubSeq(dc_xs, 1, middle)
                 right == SubSeq(axs, middle + 1, Len(axs))
                 left_sort == merge_sorted(left, c).ret
                 right_sort == merge_sorted(right, c).ret
                 out == _merged(left_sort, right_sort, c).ret
             IN  [ret |-> out, xs |-> out]

merge_sorted(axs, c) ==
    LET dc_xs == axs                      \* deepcopy: a distinct, equal list
        middle == Len(dc_xs) \div 2
    IN  IF Len(axs) = 1 \/ Len(axs) = 0
        THEN [ret |-> axs, xs |-> axs]    \* returns the argument itself
        ELSE LET left == SubSeq(dc_xs, 1, middle)      \* slices are new lists
                 right == SubSeq(axs, middle + 1, Len(axs))
                 left_sort == merge_sorted(left, c).ret
                 right_sort == merge_sorted(right, c).ret
             IN  [ret |-> _merged(left_sort, right_sort, c).ret,
                  xs |-> axs]

----------------------------------------------------------------------------
(* Call stack shared by the two quicksorts.  stack[1] is the call made by  *)
(* the caller, whose argument list is the caller's own list object xs;     *)
(* the last frame is the call that is executing.                           *)

Top == stack[Len(stack)]

\* Replace the executing frame by f.
WithTop(f) == [stack EXCEPT ![Len(stack)] = f]

\* The caller's list object is the argument of the outermost frame.
CallerList(st) == IF st = <<>> THEN xs ELSE st[1].xs

\* An exception propagates through every frame (no handler anywhere).
Raise(e) ==
    /\ exc' = e
    /\ pc' = "raised"
    /\ xs' = CallerList(stack)
    /\ stack' = <<>>
    /\ UNCHANGED <<op, cmp, xs0, ys0, ys, ret>>

----------------------------------------------------------------------------
(* quick_sorted, lines 145-187 *)

\* Frame of a call quick_sorted(axs, cmp=c) at entry, lines 169-171.
\* xs0 records the contents of the argument when the call was made.
quick_sorted_frame(axs, c) ==
    [xs0 |-> axs, xs |-> axs, cmp |-> c, pc |-> "start", k |-> 0, pivot |-> 0,
     higher |-> <<>>, lower |-> <<>>, equal |-> <<>>,
     less_than |-> <<>>, greater_than |-> <<>>]

\* partition_body with the pivot's equals sent to lower as well
partition_body_le(f) ==
    LET i == f.xs[f.k + 1]
        h == IF i > f.pivot THEN Append(f.higher, i) ELSE f.higher
        l == IF i <= f.pivot THEN Append(f.lower, i) ELSE f.lower
        e == IF i < f.pivot THEN f.equal ELSE Append(f.equal, i)
    IN  [f EXCEPT !.higher = h, !.lower = l, !.equal = e, !.k = f.k + 1]

\* One iteration of the for loop, lines 177-183, on the k-th element
\* (0-based).  The tests are Python's own < and > on the elements; the
\* else belongs to the second if only.
partition_body(f) ==
    LET i == f.xs[f.k + 1]
        h == IF i > f.pivot THEN Append(f.higher, i) ELSE f.higher
        l == IF i < f.pivot THEN Append(f.lower, i) ELSE f.lower
        e == IF i < f.pivot THEN f.equal ELSE Append(f.equal, i)
    IN  [f EXCEPT !.higher = h, !.lower = l, !.equal = e, !.k = f.k + 1]

\* The caller's frame g when the call it waits for returns value v, the
\* argument list of that call then holding axs (lines 184, 185).
quick_sorted_resume(g, v, axs) ==
    IF g.pc = "wait_lower"
    THEN [g EXCEPT !.less_than = v, !.lower = axs, !.pc = "call_higher"]
    ELSE [g EXCEPT !.greater_than = v, !.higher = axs, !.pc = "concat"]

----------------------------------------------------------------------------
(* quick_sort, lines 190-233 *)

\* Frame of a call quick_sort(axs, c) at entry.
quick_sort_frame(axs, c) ==
    [xs0 |-> axs, xs |-> axs, cmp |-> c, pc |-> "start", lo |-> 0, hi |-> 0, j |-> 0]

\* t = s[a]; s[a] = s[b]; s[b] = t with 0-based a and b
\* (lines 224-226 and 228-230)
Swap(s, a, b) == [s EXCEPT ![a + 1] = s[b + 1], ![b + 1] = s[a + 1]]

\* scan_body moving every element that is not GREATER than the pivot
scan_body_le(f) ==
    IF Compare(f.cmp, f.xs[f.j + 1], f.xs[f.hi + 1]) # 1
    THEN [f EXCEPT !.xs = Swap(f.xs, f.j, f.lo), !.lo = f.lo + 1, !.j = f.j + 1]
    ELSE [f EXCEPT !.j = f.j + 1]

\* One iteration of the for loop, lines 222-227, at scan index j.
scan_body(f) ==
    IF Compare(f.cmp, f.xs[f.j + 1], f.xs[f.hi + 1]) = -1
    THEN [f EXCEPT !.xs = Swap(f.xs, f.j, f.lo), !.lo = f.lo + 1, !.j = f.j + 1]
    ELSE [f EXCEPT !.j = f.j + 1]

\* lines 228-230: the pivot goes to the boundary position
pivot_swap(f) == [f EXCEPT !.xs = Swap(f.xs, f.hi, f.lo), !.pc = "call_lower"]

\* line 231, the assignment: xs[:lo] = v in the caller's frame g
quick_sort_resume(g, v) ==
    [g EXCEPT !.xs = v \o SubSeq(g.xs, g.lo + 1, Len(g.xs)), !.pc = "call_upper"]

----------------------------------------------------------------------------
(* Properties of lists used by the statements below *)

\* s is sorted under comparator c: adjacent pairs compare LESS or EQUAL
Sorted(s, c) == \A i \in 1..(Len(s) - 1) : Compare(c, s[i], s[i + 1]) \in {-1, 0}

Count(s, v) == Cardinality({i \in 1..Len(s) : s[i] = v})

\* s and t hold the same multiset of elements
SameElements(s, t) == \A v \in Values : Count(s, v) = Count(t, v)

RECURSIVE Select(_, _, _, _)
\* the elements e of s with Compare(c, e, v) = o, in the order of s
Select(s, c, v, o) ==
    IF s = <<>> THEN <<>>
    ELSE IF Compare(c, Head(s), v) = o
         THEN <<Head(s)>> \o Select(Tail(s), c, v, o)
         ELSE Select(Tail(s), c, v, o)

\* the call has ended, with a value or with an exception
Ended == pc \in {"returned", "raised"}

----------------------------------------------------------------------------
(* The calls *)

Init ==
    /\ op = "none"
    /\ cmp = "cmp_standard"
    /\ xs0 = <<>> /\ ys0 = <<>>
    /\ xs = <<>> /\ ys = <<>>
    /\ ret = <<>>
    /\ exc = "none"
    /\ pc = "idle"
    /\ stack = <<>>

\* _merged(A, B, c) on two lists sorted under c
Call_merged ==
    /\ pc = "idle"
    /\ \E c \in Comparators, A \in SeqsUpTo(MaxMergeLen), B \in SeqsUpTo(MaxMergeLen) :
          /\ Sorted(A, c) /\ Sorted(B, c)
          /\ LET r == _merged(A, B, c)
             IN  /\ op' = "_merged"
                 /\ cmp' = c
                 /\ xs0' = A /\ ys0' = B
                 /\ xs' = r.xs /\ ys' = r.ys
                 /\ ret' = r.ret
    /\ pc' = "returned"
    /\ UNCHANGED <<exc, stack>>

\* merge_sorted(input, c)
Call_merge_sorted ==
    /\ pc = "idle"
    /\ \E c \in Comparators, input \in SeqsUpTo(MaxLen) :
          LET r == merge_sorted(input, c)
          IN  /\ op' = "merge_sorted"
              /\ cmp' = c
              /\ xs0' = input
              /\ xs' = r.xs
              /\ ret' = r.ret
    /\ pc' = "returned"
    /\ UNCHANGED <<ys0, ys, exc, stack>>

\* quick_sorted(input, c)
Call_quick_sorted ==
    /\ pc = "idle"
    /\ \E c \in Comparators, input \in SeqsUpTo(MaxLen) :
          /\ op' = "quick_sorted"
          /\ cmp' = c
          /\ xs0' = input
          /\ xs' = input
          /\ stack' = <<quick_sorted_frame(input, c)>>
    /\ pc' = "running"
    /\ UNCHANGED <<ys0, ys, ret, exc>>

\* The executing quick_sorted call returns v.
quick_sorted_return(v) ==
    IF Len(stack) = 1
    THEN /\ ret' = v
         /\ pc' = "returned"
         /\ xs' = Top.xs
         /\ stack' = <<>>
         /\ UNCHANGED <<op, cmp, xs0, ys0, ys, exc>>
    ELSE /\ stack' = [SubSeq(stack, 1, Len(stack) - 1) EXCEPT
                        ![Len(stack) - 1] =
                            quick_sorted_resume(stack[Len(stack) - 1], v, Top.xs)]
         /\ xs' = CallerList(stack')
         /\ UNCHANGED <<op, cmp, xs0, ys0, ys, ret, exc, pc>>

\* lines 173-174: a one-element list is returned as it is
QSd_Base ==
    /\ op = "quick_sorted" /\ pc = "running"
    /\ Top.pc = "start"
    /\ Len(Top.xs) = 1
    /\ quick_sorted_return(Top.xs)

\* line 176: pivot = xs[1], an IndexError when there is no second element
QSd_Pivot ==
    /\ op = "quick_sorted" /\ pc = "running"
    /\ Top.pc = "start"
    /\ Len(Top.xs) # 1
    /\ IF Len(Top.xs) < 2
       THEN Raise("IndexError")
       ELSE /\ stack' = WithTop([Top EXCEPT !.pivot = Top.xs[2], !.pc = "loop"])
            /\ xs' = CallerList(stack')
            /\ UNCHANGED <<op, cmp, xs0, ys0, ys, ret, exc, pc>>

\* lines 177-183: one iteration of the partition loop
QSd_LoopStep ==
    /\ op = "quick_sorted" /\ pc = "running"
    /\ Top.pc = "loop"
    /\ Top.k < Len(Top.xs)
    /\ stack' = WithTop(partition_body(Top))
    /\ xs' = CallerList(stack')
    /\ UNCHANGED <<op, cmp, xs0, ys0, ys, ret, exc, pc>>

\* line 184: less_than = quick_sorted(lower, cmp=cmp_standard)
QSd_CallLower ==
    /\ op = "quick_sorted" /\ pc = "running"
    /\ Top.pc = "loop"
    /\ Top.k = Len(Top.xs)
    /\ Len(stack) < MaxDepth
    /\ stack' = Append(WithTop([Top EXCEPT !.pc = "wait_lower"]),
                       quick_sorted_frame(Top.lower, "cmp_standard"))
    /\ xs' = CallerList(stack')
    /\ UNCHANGED <<op, cmp, xs0, ys0, ys, ret, exc, pc>>

\* line 185: greater_than = quick_sorted(higher, cmp=cmp_standard)
QSd_CallHigher ==
    /\ op = "quick_sorted" /\ pc = "running"
    /\ Top.pc = "call_higher"
    /\ Len(stack) < MaxDepth
    /\ stack' = Append(WithTop([Top EXCEPT !.pc = "wait_higher"]),
                       quick_sorted_frame(Top.higher, "cmp_standard"))
    /\ xs' = CallerList(stack')
    /\ UNCHANGED <<op, cmp, xs0, ys0, ys, ret, exc, pc>>

\* line 187: return less_than + equal + greater_than
QSd_Concat ==
    /\ op = "quick_sorted" /\ pc = "running"
    /\ Top.pc = "concat"
    /\ quick_sorted_return(Top.less_than \o Top.equal \o Top.greater_than)

\* quick_sort(input, c)
Call_quick_sort ==
    /\ pc = "idle"
    /\ \E c \in Comparators, input \in SeqsUpTo(MaxLen) :
          /\ op' = "quick_sort"
          /\ cmp' = c
          /\ xs0' = input
          /\ xs' = input
          /\ stack' = <<quick_sort_frame(input, c)>>
    /\ pc' = "running"
    /\ UNCHANGED <<ys0, ys, ret, exc>>

\* lines 215-216: a list of at most one element is returned as it is
QS_Base ==
    /\ op = "quick_sort" /\ pc = "running"
    /\ Top.pc = "start"
    /\ Len(Top.xs) = 1 \/ Len(Top.xs) = 0
    /\ IF Len(stack) = 1
       THEN /\ ret' = Top.xs
            /\ pc' = "returned"
            /\ xs' = Top.xs
            /\ stack' = <<>>
            /\ UNCHANGED <<op, cmp, xs0, ys0, ys, exc>>
       ELSE /\ stack' = [SubSeq(stack, 1, Len(stack) - 1) EXCEPT
                           ![Len(stack) - 1] =
                               quick_sort_resume(stack[Len(stack) - 1], Top.xs)]
            /\ xs' = CallerList(stack')
            /\ UNCHANGED <<op, cmp, xs0, ys0, ys, ret, exc, pc>>

\* lines 218-221: hi = len(xs) - 1, lo = 0, and lo < hi holds
QS_Enter ==
    /\ op = "quick_sort" /\ pc = "running"
    /\ Top.pc = "start"
    /\ ~(Len(Top.xs) = 1 \/ Len(Top.xs) = 0)
    /\ 0 < Len(Top.xs) - 1
    /\ stack' = WithTop([Top EXCEPT !.hi = Len(Top.xs) - 1, !.lo = 0,
                                    !.j = 0, !.pc = "scan"])
    /\ xs' = CallerList(stack')
    /\ UNCHANGED <<op, cmp, xs0, ys0, ys, ret, exc, pc>>

\* lines 222-227: one iteration of the scan, j in range(len(xs) - 1)
QS_ScanStep ==
    /\ op = "quick_sort" /\ pc = "running"
    /\ Top.pc = "scan"
    /\ Top.j < Len(Top.xs) - 1
    /\ stack' = WithTop(scan_body(Top))
    /\ xs' = CallerList(stack')
    /\ UNCHANGED <<op, cmp, xs0, ys0, ys, ret, exc, pc>>

\* lines 228-230: after the scan, swap the pivot into place
QS_PivotSwap ==
    /\ op = "quick_sort" /\ pc = "running"
    /\ Top.pc = "scan"
    /\ Top.j = Len(Top.xs) - 1
    /\ stack' = WithTop(pivot_swap(Top))
    /\ xs' = CallerList(stack')
    /\ UNCHANGED <<op, cmp, xs0, ys0, ys, ret, exc, pc>>

\* line 231, the call: quick_sort(xs[:lo], cmp) on a new list, the slice
QS_CallLower ==
    /\ op = "quick_sort" /\ pc = "running"
    /\ Top.pc = "call_lower"
    /\ Len(stack) < MaxDepth
    /\ stack' = Append(WithTop([Top EXCEPT !.pc = "wait_lower"]),
                       quick_sort_frame(SubSeq(Top.xs, 1, Top.lo), Top.cmp))
    /\ xs' = CallerList(stack')
    /\ UNCHANGED <<op, cmp, xs0, ys0, ys, ret, exc, pc>>

\* line 232: quick_sort(xs[lo + 1], cmp).  The subscript raises IndexError
\* when lo is the last index; otherwise the argument is an element, an
\* integer, and len() of it at line 215 raises TypeError.  Line 233 is
\* therefore never reached.
QS_CallUpper ==
    /\ op = "quick_sort" /\ pc = "running"
    /\ Top.pc = "call_upper"
    /\ IF Top.lo + 1 > Len(Top.xs) - 1
       THEN Raise("IndexError")
       ELSE Raise("TypeError")

\* the steps of a quick_sorted call
NextQuickSorted ==
    \/ Call_quick_sorted
    \/ QSd_Base
    \/ QSd_Pivot
    \/ QSd_LoopStep
    \/ QSd_CallLower
    \/ QSd_CallHigher
    \/ QSd_Concat

\* the steps of a quick_sort call
NextQuickSort ==
    \/ Call_quick_sort
    \/ QS_Base
    \/ QS_Enter
    \/ QS_ScanStep
    \/ QS_PivotSwap
    \/ QS_CallLower
    \/ QS_CallUpper

Next ==
    \/ Call_merged
    \/ Call_merge_sorted
    \/ NextQuickSorted
    \/ NextQuickSort

Spec == Init /\ [][Next]_vars

\* A quick_sorted call alone.  The interpreter runs a call without
\* suspending it (single thread, no I/O), so a step that can be taken is
\* taken.
LiveSpec == Init /\ [][NextQuickSorted]_vars /\ WF_vars(NextQuickSorted)

----------------------------------------------------------------------------
(* Statements checked *)

\* C1: merge_sorted(xs, cmp) returns a list that is sorted under cmp and
\* holds exactly the elements of xs, each as often as xs does.
C1_MergeSortedSorts ==
    (op = "merge_sorted" /\ pc = "returned")
        => Sorted(ret, cmp) /\ SameElements(ret, xs0) /\ Len(ret) = Len(xs0)

\* merge_sorted returned for an unsorted input of four or more elements
\* with a repeated value, under the last-digit comparator
C1_Witness ==
    /\ op = "merge_sorted" /\ pc = "returned"
    /\ cmp = "cmp_last_digit"
    /\ Len(xs0) >= 4
    /\ ~Sorted(xs0, cmp)
    /\ \E v \in Values : Count(xs0, v) >= 2

\* C2: quick_sorted(xs, cmp) returns normally, and what it returns is
\* sorted under cmp and holds exactly the elements of xs.
C2_QuickSortedSorts ==
    op = "quick_sorted"
        => /\ pc # "raised"
           /\ pc = "returned" =>
                 Sorted(ret, cmp) /\ SameElements(ret, xs0) /\ Len(ret) = Len(xs0)

\* C3: quick_sort(xs, cmp) returns normally, returns the caller's list, and
\* leaves in it the original elements sorted under cmp.
C3_QuickSortSorts ==
    op = "quick_sort"
        => /\ pc # "raised"
           /\ pc = "returned" =>
                 ret = xs /\ Sorted(xs, cmp) /\ SameElements(xs, xs0)

\* C4: during and after a call of merge_sorted or quick_sorted, whether it
\* returns or raises, the caller's list holds what it held before the call;
\* so does the argument list of every nested call.
C4_NonMutation ==
    op \in {"merge_sorted", "quick_sorted"}
        => /\ xs = xs0
           /\ \A d \in 1..Len(stack) : stack[d].xs = stack[d].xs0

\* merge_sorted returned a list that differs from its argument
C4_Witness ==
    /\ op = "merge_sorted" /\ pc = "returned"
    /\ Len(xs0) >= 3
    /\ ret # xs0

\* C5: on two lists sorted under cmp, _merged returns a list sorted under
\* cmp that holds every element as often as the two lists together do, so
\* that its length is the sum of theirs, and leaves both lists as they were.
C5_Merge ==
    (op = "_merged" /\ pc = "returned")
        => /\ Sorted(ret, cmp)
           /\ \A v \in Values : Count(ret, v) = Count(xs0, v) + Count(ys0, v)
           /\ Len(ret) = Len(xs0) + Len(ys0)
           /\ xs = xs0 /\ ys = ys0

\* _merged returned for two non-empty lists that interleave, one of them
\* outlasting the other by two elements or more
C5_Witness ==
    /\ op = "_merged" /\ pc = "returned"
    /\ Len(xs0) >= 2 /\ Len(ys0) >= 2
    /\ ret # xs0 \o ys0
    /\ ret # ys0 \o xs0
    /\ Compare(cmp, ys0[Len(ys0) - 1], xs0[Len(xs0)]) = 1

\* C6: on the empty list and on a one-element list each of the three sorts
\* returns, without raising, a list equal to its argument.
C6_EdgeCases ==
    (op \in {"merge_sorted", "quick_sorted", "quick_sort"} /\ Len(xs0) <= 1)
        => /\ pc # "raised"
           /\ pc = "returned" => ret = xs0

\* C7: merge_sorted keeps elements that compare EQUAL in the order they
\* have in xs, and _merged puts the left list's elements before the right
\* list's elements that compare EQUAL to them.
C7_Stable ==
    /\ (op = "merge_sorted" /\ pc = "returned")
          => \A v \in Values : Select(ret, cmp, v, 0) = Select(xs0, cmp, v, 0)
    /\ (op = "_merged" /\ pc = "returned")
          => \A v \in Values :
                Select(ret, cmp, v, 0)
                    = Select(xs0, cmp, v, 0) \o Select(ys0, cmp, v, 0)

\* C8: when the partition loop of a quick_sorted call has run, lower, equal
\* and higher hold the elements of xs that compare LESS, EQUAL and GREATER
\* to the pivot under the comparator the call was given, so their lengths
\* add up to len(xs), and so does the length of the list returned.
C8_ThreeWayPartition ==
    op = "quick_sorted"
        => \A d \in 1..Len(stack) :
              LET f == stack[d]
              IN  /\ (f.pc # "start" /\ f.k = Len(f.xs)) =>
                        /\ f.lower = Select(f.xs, f.cmp, f.pivot, -1)
                        /\ f.equal = Select(f.xs, f.cmp, f.pivot, 0)
                        /\ f.higher = Select(f.xs, f.cmp, f.pivot, 1)
                        /\ Len(f.lower) + Len(f.equal) + Len(f.higher) = Len(f.xs)
                  /\ f.pc = "concat" =>
                        Len(f.less_than \o f.equal \o f.greater_than) = Len(f.xs)

\* C9: in a quick_sort call, after the scan and the pivot swap and before
\* the recursive calls, xs holds its original elements, xs[lo] is the
\* original last element, everything below lo compares LESS than it and
\* nothing above lo does.
C9_LomutoPartition ==
    op = "quick_sort"
        => \A d \in 1..Len(stack) :
              LET f == stack[d]
                  pivot == f.xs0[Len(f.xs0)]
              IN  f.pc = "call_lower" =>
                     /\ SameElements(f.xs, f.xs0) /\ Len(f.xs) = Len(f.xs0)
                     /\ f.lo \in 0..(Len(f.xs) - 1)
                     /\ f.xs[f.lo + 1] = pivot
                     /\ \A i \in 0..(f.lo - 1) :
                           Compare(f.cmp, f.xs[i + 1], pivot) = -1
                     /\ \A i \in (f.lo + 1)..(Len(f.xs) - 1) :
                           Compare(f.cmp, f.xs[i + 1], pivot) # -1

\* a partition that moved elements: the boundary is strictly inside the
\* list, an element equal to the pivot stayed above it, and xs changed
C9_Witness ==
    /\ op = "quick_sort" /\ pc = "running"
    /\ Top.pc = "call_lower"
    /\ 0 < Top.lo /\ Top.lo < Top.hi
    /\ Top.xs # Top.xs0
    /\ \E i \in (Top.lo + 1)..Top.hi :
          Compare(Top.cmp, Top.xs[i + 1], Top.xs[Top.lo + 1]) = 0

\* C10: every recursive call quick_sorted makes is on a list strictly
\* shorter than its own argument, and every call of quick_sorted ends,
\* with a result or with an exception.
C10_Terminates ==
    /\ [][(op = "quick_sorted" /\ stack # <<>> /\ Len(stack') = Len(stack) + 1)
             => Len(stack'[Len(stack')].xs) < Len(Top.xs)]_vars
    /\ (op = "quick_sorted") ~> Ended

\* a quick_sorted call that made both recursive calls has returned
C10_Witness ==
    /\ op = "quick_sorted" /\ pc = "returned"
    /\ Len(xs0) >= 3

====
